---- MODULE Spec2Model ----
(***************************************************************************)
(* Model of the media resizer: the composition planner of the video path   *)
(* (processVideo) and of the raster path (processImage), the memoized      *)
(* engine loader (loadFFmpeg), the engine's virtual filesystem, the export *)
(* orchestration of App (handleDownload / handleDownloadAll), and the      *)
(* measurement effects and pointer handlers of MediaPreview.               *)
(***************************************************************************)
EXTENDS Integers, Sequences, FiniteSets, TLC

VARIABLES
    \* ---- composition planner (processVideo geometry / processImage) ----
    planIn,        \* the arguments of one export call
    videoPlan,     \* geometry computed by processVideo, or NoPlan
    rasterPlan,    \* canvas and draw rectangle of processImage, or NoPlan
    \* ---- one evaluation of handleMouseMove ----
    moveIn,        \* the state handleMouseMove reads and the pointer position
    moveOut,       \* the transform it passes to onTransformChange, or NoPlan
    \* ---- App state (React state of App) ----
    file,               \* "none", "image" or "video": the selected file's kind
    processingStates,   \* per target: handleDownload in progress
    isGlobalProcessing, \* the batch lock
    \* ---- calls in flight ----
    pc,                 \* per target: where its handleDownload call is suspended
    caller,             \* per target: "click" or "batch", who called handleDownload
    result,             \* per target: how the try body of processVideo ended
    batchTransforms,    \* `transforms` as the render of the last Download All click saw it
    exportTransform,    \* per target: the transform generateUrl read for the call, or Unset
    dims,               \* per target: what getVideoDimensions resolved with, or NotProbed
    batchPc,            \* handleDownloadAll: "idle", "export" (awaiting handleDownload) or "pause"
    batchIdx,           \* handleDownloadAll: index of the current config, 0 when idle
    \* ---- videoProcessor module state and the engine ----
    hasSAB,             \* window.SharedArrayBuffer is available
    ffmpeg,             \* the module variable ffmpeg: 0 for null, else the instance
    loadPromise,        \* the module variable loadPromise: 0 for null, else the promise
    promises,           \* state of every promise loadFFmpeg created, by its number
    awaiting,           \* per target: the load promise its processVideo awaits, or 0
    instance,           \* per target: the engine instance its processVideo received, or 0
    fs,                 \* the engine's virtual filesystem: per name, 0 when absent,
                        \* else the target whose call wrote the entry last
    \* ---- observations ----
    issued,             \* targets whose export the running or last batch started, in order
    batchLog,           \* what each settled export of that batch did
    batchAborted,       \* handleDownloadAll reached its catch block
    \* ---- App state: the transforms ----
    transforms,         \* per target: its stored {scale, x, y}, or Unset
    \* ---- MediaPreview of one target (React state of the component) ----
    preview,            \* the target whose MediaPreview this is
    probing,            \* the file effect's probe has not reported a size yet
    naturalSize,        \* {width, height} of the media, 0 x 0 until probed
    containerSize,      \* {width, height} of the container, 0 x 0 until observed
    fittedRect,         \* {width, height, left, top} of the media fitted at scale 1
    isDragging,
    dragType,           \* "move", a handle id, or "none" for null
    dragStart,          \* {x, y}: clientX / clientY of the pointer-down
    startTransform,     \* the transform snapshot taken at pointer-down
    isSnappedX,
    isSnappedY,
    \* ---- observations ----
    lastEvent,          \* the handler that ran last: "move", "up", "leave", else "other"
    lastPointer,        \* clientX / clientY of the last pointer event of the drag session
    sessions            \* number of pointer-downs so far

planVars == <<planIn, videoPlan, rasterPlan, moveIn, moveOut>>
appVars == <<file, processingStates, isGlobalProcessing, pc, caller, result,
             exportTransform, dims,
             batchPc, batchIdx, hasSAB, ffmpeg, loadPromise, promises, awaiting,
             instance, fs, issued, batchLog, batchAborted, batchTransforms>>
gestVars == <<transforms, preview, probing, naturalSize, containerSize,
              fittedRect, isDragging, dragType, dragStart, startTransform,
              isSnappedX, isSnappedY, lastEvent, lastPointer, sessions>>
vars == <<planVars, appVars, gestVars>>

(***************************************************************************)
(* Exact rational arithmetic: a number is [n |-> numerator, d |-> denom]   *)
(* with d > 0, kept in lowest terms.                                       *)
(***************************************************************************)
Abs(i) == IF i < 0 THEN -i ELSE i

RECURSIVE GCD(_, _)
GCD(a, b) == IF b = 0 THEN a ELSE GCD(b, a % b)

Rat(n, d) ==
    LET g == GCD(Abs(n), d)
    IN  [n |-> n \div g, d |-> d \div g]

RInt(i) == [n |-> i, d |-> 1]
RAdd(a, b) == Rat(a.n * b.d + b.n * a.d, a.d * b.d)
RSub(a, b) == Rat(a.n * b.d - b.n * a.d, a.d * b.d)
RMul(a, b) == Rat(a.n * b.n, a.d * b.d)
RHalf(a) == Rat(a.n, 2 * a.d)
RNeg(a) == [n |-> -a.n, d |-> a.d]
RLe(a, b) == a.n * b.d <= b.n * a.d
RLt(a, b) == a.n * b.d < b.n * a.d
REq(a, b) == a.n * b.d = b.n * a.d
RMin(a, b) == IF RLe(a, b) THEN a ELSE b
RMax(a, b) == IF RLe(a, b) THEN b ELSE a

\* Math.round: the nearest integer, halves rounded towards +infinity.
MathRound(a) == (2 * a.n + a.d) \div (2 * a.d)

\* Number.prototype.toFixed(2) of a non-negative number, in hundredths.
ToFixed2(a) == MathRound(RMul(a, RInt(100)))

(***************************************************************************)
(* JavaScript numbers of the preview geometry: the rationals above plus    *)
(* the values a division by zero produces.  A number with d = 0 is not     *)
(* finite: n = 0 is NaN, n = 1 is Infinity, n = -1 is -Infinity.  The      *)
(* zero divisors of this code (a measured size, a box extent) are never    *)
(* negative zero, so x / 0 takes the sign of x.                            *)
(***************************************************************************)
NaN == [n |-> 0, d |-> 0]
PosInf == [n |-> 1, d |-> 0]
NegInf == [n |-> -1, d |-> 0]

IsNaN(a) == a.d = 0 /\ a.n = 0
IsFinite(a) == a.d # 0
Sign(a) == IF a.n > 0 THEN 1 ELSE IF a.n < 0 THEN -1 ELSE 0

XNeg(a) == [n |-> -a.n, d |-> a.d]
XAbs(a) == [n |-> Abs(a.n), d |-> a.d]

XAdd(a, b) ==
    IF IsNaN(a) \/ IsNaN(b) THEN NaN
    ELSE IF a.d = 0 /\ b.d = 0 THEN (IF a.n = b.n THEN a ELSE NaN)
    ELSE IF a.d = 0 THEN a
    ELSE IF b.d = 0 THEN b
    ELSE RAdd(a, b)

XSub(a, b) == XAdd(a, XNeg(b))

XMul(a, b) ==
    IF IsNaN(a) \/ IsNaN(b) THEN NaN
    ELSE IF a.d = 0 \/ b.d = 0
         THEN (IF a.n = 0 \/ b.n = 0 THEN NaN
               ELSE [n |-> Sign(a) * Sign(b), d |-> 0])
    ELSE RMul(a, b)

XDiv(a, b) ==
    IF IsNaN(a) \/ IsNaN(b) THEN NaN
    ELSE IF a.d = 0 /\ b.d = 0 THEN NaN
    ELSE IF a.d = 0 THEN [n |-> Sign(a) * (IF b.n < 0 THEN -1 ELSE 1), d |-> 0]
    ELSE IF b.d = 0 THEN RInt(0)
    ELSE IF b.n = 0 THEN (IF a.n = 0 THEN NaN ELSE [n |-> Sign(a), d |-> 0])
    ELSE IF b.n > 0 THEN Rat(a.n * b.d, a.d * b.n)
    ELSE Rat(-(a.n * b.d), a.d * (-b.n))

\* a < b; false when either side is NaN
XLt(a, b) ==
    IF IsNaN(a) \/ IsNaN(b) THEN FALSE
    ELSE IF a.d = 0 /\ b.d = 0 THEN a.n < b.n
    ELSE IF a.d = 0 THEN a.n < 0
    ELSE IF b.d = 0 THEN b.n > 0
    ELSE RLt(a, b)

\* a === b for numbers
XEq(a, b) == ~IsNaN(a) /\ ~IsNaN(b) /\ a = b

\* a >= b; false when either side is NaN
XGe(a, b) == XLt(b, a) \/ XEq(a, b)

\* Math.max(a, b)
XMax(a, b) ==
    IF IsNaN(a) \/ IsNaN(b) THEN NaN
    ELSE IF XLt(a, b) THEN b ELSE a

(***************************************************************************)
(* Composition planner.                                                    *)
(***************************************************************************)
NoPlan == [kind |-> "none"]

\* RESIZE_CONFIGS, in order.
RESIZE_CONFIGS ==
    << [width |-> 1000, height |-> 1000, label |-> "Square (1:1)"],
       [width |-> 1920, height |-> 1080, label |-> "Landscape (16:9)"],
       [width |-> 1080, height |-> 1920, label |-> "Portrait (9:16)"] >>

MaxTarget == 3        \* small target frames: 1..MaxTarget on each axis
MaxMedia == 2         \* small media: 1..MaxMedia on each axis
MaxScaleTenths == 12  \* transform.scale ranges over 0.1 .. MaxScaleTenths/10
MaxPanQuarters == 2   \* transform.x, transform.y range over -k/4 .. k/4

TargetFrames ==
    { [width |-> w, height |-> h] : w \in 1..MaxTarget, h \in 1..MaxTarget }
    \cup { [width |-> RESIZE_CONFIGS[i].width, height |-> RESIZE_CONFIGS[i].height] :
             i \in 1..Len(RESIZE_CONFIGS) }

MediaSizes ==
    { [width |-> w, height |-> h] : w \in 1..MaxMedia, h \in 1..MaxMedia }
    \cup { [width |-> 1920, height |-> 1080], [width |-> 1080, height |-> 1920] }

Scales == { Rat(k, 10) : k \in 1..MaxScaleTenths }
Pans == { Rat(k, 4) : k \in (-MaxPanQuarters)..MaxPanQuarters }

PlanInputs ==
    [ media : MediaSizes, target : TargetFrames,
      userScale : Scales, panX : Pans, panY : Pans ]

\* targetWidth % 2 !== 0 ? targetWidth - 1 : targetWidth
EvenDimIdentity(t) == t
EvenDim(t) == IF t % 2 # 0 THEN t - 1 ELSE t

\* Math.min(padW / iw, padH / ih) * userScale
ScaleFactorCover(padW, padH, iw, ih, userScale) ==
    RMul(RMax(Rat(padW, iw), Rat(padH, ih)), userScale)
ScaleFactor(padW, padH, iw, ih, userScale) ==
    RMul(RMin(Rat(padW, iw), Rat(padH, ih)), userScale)

\* Math.round(i * scaleFactor), made even, then floored at 2
ScaledDimNoFloor(i, scaleFactor) ==
    LET r == MathRound(RMul(RInt(i), scaleFactor))
    IN  IF r % 2 # 0 THEN r - 1 ELSE r
ScaledDim(i, scaleFactor) ==
    LET r == MathRound(RMul(RInt(i), scaleFactor))
        e == IF r % 2 # 0 THEN r - 1 ELSE r
    IN  IF e < 2 THEN 2 ELSE e

IMax(a, b) == IF a >= b THEN a ELSE b

\* The geometry section of processVideo.
VideoPlan(in) ==
    LET iw == in.media.width
        ih == in.media.height
        padW == EvenDim(in.target.width)
        padH == EvenDim(in.target.height)
        scaleFactor == ScaleFactor(padW, padH, iw, ih, in.userScale)
        newW == ScaledDim(iw, scaleFactor)
        newH == ScaledDim(ih, scaleFactor)
        xPos == RAdd(RHalf(RInt(padW - newW)), RMul(RInt(padW), in.panX))
        yPos == RAdd(RHalf(RInt(padH - newH)), RMul(RInt(padH), in.panY))
        padX == RMax(RInt(0), xPos)
        padY == RMax(RInt(0), yPos)
        cropX == RMax(RInt(0), RNeg(xPos))
        cropY == RMax(RInt(0), RNeg(yPos))
    IN  [ kind |-> "video",
          padW |-> padW, padH |-> padH,
          newW |-> newW, newH |-> newH,
          xPos |-> xPos, yPos |-> yPos,
          superW |-> IMax(padW, newW), superH |-> IMax(padH, newH),
          padX |-> padX, padY |-> padY,
          cropX |-> cropX, cropY |-> cropY,
          \* the values written into the filter string with toFixed(2)
          filterPadX |-> ToFixed2(padX), filterPadY |-> ToFixed2(padY),
          filterCropX |-> ToFixed2(cropX), filterCropY |-> ToFixed2(cropY) ]

\* The img.onload body of processImage: canvas size and drawImage rectangle.
RasterPlan(in) ==
    LET tw == in.target.width
        th == in.target.height
        baseScale == RMin(Rat(tw, in.media.width), Rat(th, in.media.height))
        finalScale == RMul(baseScale, in.userScale)
        drawWidth == RMul(RInt(in.media.width), finalScale)
        drawHeight == RMul(RInt(in.media.height), finalScale)
    IN  [ kind |-> "raster",
          canvasW |-> tw, canvasH |-> th,
          x |-> RAdd(RHalf(RSub(RInt(tw), drawWidth)), RMul(RInt(tw), in.panX)),
          y |-> RAdd(RHalf(RSub(RInt(th), drawHeight)), RMul(RInt(th), in.panY)),
          width |-> drawWidth, height |-> drawHeight ]


(***************************************************************************)
(* App: export orchestration, the engine loader and the engine filesystem. *)
(***************************************************************************)
Targets == 1..Len(RESIZE_CONFIGS)

InputName == "input.mp4"
OutputName == "output.mp4"
FileNames == {InputName, OutputName}

MaxLoads == 2   \* loadFFmpeg starts at most this many initializations

(***************************************************************************)
(* The transforms of App and the state of one MediaPreview.                *)
(***************************************************************************)
\* transforms[label] is undefined until the target's transform is first set
Unset == [kind |-> "unset"]
DefaultTransform == [scale |-> RInt(1), x |-> RInt(0), y |-> RInt(0)]

\* getTransform of the render whose `transforms` is trs:
\* transforms[label] || { scale: 1, x: 0, y: 0 }
GetTransformOf(trs, t) == IF trs[t] = Unset THEN DefaultTransform ELSE trs[t]

\* getTransform of the current render
GetTransform(t) == GetTransformOf(transforms, t)

ZeroSize == [width |-> 0, height |-> 0]
ZeroRect == [width |-> RInt(0), height |-> RInt(0), left |-> RInt(0), top |-> RInt(0)]

\* the fitted rect with the comparison of the aspects the other way round
FitContainCover(nat, cont, old) ==
    IF nat.width = 0 \/ cont.width = 0
    THEN old
    ELSE LET containerAspect == XDiv(RInt(cont.width), RInt(cont.height))
             mediaAspect == XDiv(RInt(nat.width), RInt(nat.height))
             wide == XLt(mediaAspect, containerAspect)
             width == IF wide THEN RInt(cont.width)
                      ELSE XMul(RInt(cont.height), mediaAspect)
             height == IF wide THEN XDiv(RInt(cont.width), mediaAspect)
                       ELSE RInt(cont.height)
         IN  [ width |-> width, height |-> height,
               left |-> XDiv(XSub(RInt(cont.width), width), RInt(2)),
               top |-> XDiv(XSub(RInt(cont.height), height), RInt(2)) ]

\* The fitted-rect effect: it returns early, leaving fittedRect as it was,
\* when the media width or the container width is 0.
FitContain(nat, cont, old) ==
    IF nat.width = 0 \/ cont.width = 0
    THEN old
    ELSE LET containerAspect == XDiv(RInt(cont.width), RInt(cont.height))
             mediaAspect == XDiv(RInt(nat.width), RInt(nat.height))
             wide == XLt(containerAspect, mediaAspect)
             width == IF wide THEN RInt(cont.width)
                      ELSE XMul(RInt(cont.height), mediaAspect)
             height == IF wide THEN XDiv(RInt(cont.width), mediaAspect)
                       ELSE RInt(cont.height)
         IN  [ width |-> width, height |-> height,
               left |-> XDiv(XSub(RInt(cont.width), width), RInt(2)),
               top |-> XDiv(XSub(RInt(cont.height), height), RInt(2)) ]

\* The snap effect: when not dragging, the flag is transform.x === 0
\* (transform.y === 0); while dragging the effect leaves the flag alone.
SnapEffect(dragging, value, old) ==
    IF ~dragging THEN XEq(value, RInt(0)) ELSE old

\* The state of a MediaPreview when it mounts (its useState initial values),
\* also used for the component while it is not mounted.
InitialPreview ==
    [ naturalSize |-> ZeroSize, containerSize |-> ZeroSize, fittedRect |-> ZeroRect,
      isDragging |-> FALSE, dragType |-> "none",
      dragStart |-> [x |-> 0, y |-> 0], startTransform |-> DefaultTransform,
      isSnappedX |-> FALSE, isSnappedY |-> FALSE ]

\* No file, no stored transform, the preview not mounted.
GestQuiet ==
    /\ transforms = [t \in Targets |-> Unset]
    /\ probing = FALSE
    /\ naturalSize = InitialPreview.naturalSize
    /\ containerSize = InitialPreview.containerSize
    /\ fittedRect = InitialPreview.fittedRect
    /\ isDragging = InitialPreview.isDragging
    /\ dragType = InitialPreview.dragType
    /\ dragStart = InitialPreview.dragStart
    /\ startTransform = InitialPreview.startTransform
    /\ isSnappedX = InitialPreview.isSnappedX
    /\ isSnappedY = InitialPreview.isSnappedY
    /\ lastEvent = "other"
    /\ lastPointer = [x |-> 0, y |-> 0]
    /\ sessions = 0

\* processVideo before `const dims = await getVideoDimensions(file)` resolved
NotProbed == [kind |-> "none"]

\* what getVideoDimensions resolves with: videoWidth x videoHeight of the
\* element, which is 0 x 0 for a file without a decodable video track
ProbedSizes == { [width |-> 0, height |-> 0], [width |-> 1920, height |-> 1080] }

AppInit ==
    /\ batchTransforms = [t \in Targets |-> Unset]
    /\ exportTransform = [t \in Targets |-> Unset]
    /\ dims = [t \in Targets |-> NotProbed]
    /\ file = "none"
    /\ processingStates = [t \in Targets |-> FALSE]
    /\ isGlobalProcessing = FALSE
    /\ pc = [t \in Targets |-> "idle"]
    /\ caller = [t \in Targets |-> "click"]
    /\ result = [t \in Targets |-> "none"]
    /\ batchPc = "idle"
    /\ batchIdx = 0
    /\ ffmpeg = 0
    /\ loadPromise = 0
    /\ promises = << >>
    /\ awaiting = [t \in Targets |-> 0]
    /\ instance = [t \in Targets |-> 0]
    /\ fs = [n \in FileNames |-> 0]
    /\ issued = << >>
    /\ batchLog = << >>
    /\ batchAborted = FALSE

Exists(name) == fs[name] # 0
Written(name, t) == [fs EXCEPT ![name] = t]
Deleted(name) == [fs EXCEPT ![name] = 0]

AnyProcessing == \E t \in Targets : processingStates[t]

\* disabled / isLoading expressions of the controls
UploadDisabled == AnyProcessing \/ isGlobalProcessing
RemoveDisabled == isGlobalProcessing
DownloadAllDisabled == isGlobalProcessing \/ AnyProcessing
DownloadDisabledNoGlobal(t) == processingStates[t]
DownloadDisabled(t) == processingStates[t] \/ isGlobalProcessing

\* The catch block of handleDownload: it alerts and does not rethrow.
HandleDownloadNoCatch == [alert |-> FALSE, rethrow |-> TRUE]
HandleDownloadCatch == [alert |-> TRUE, rethrow |-> FALSE]

\* The observations of a batch are kept until the next user action.
ForgetBatch ==
    /\ issued' = << >>
    /\ batchLog' = << >>
    /\ batchAborted' = FALSE

\* The previews exist only while a file is selected.
Mounted == file # "none"

\* What a handler of App or a continuation of an export does to the mounted
\* MediaPreview.  When it set React state of App, App renders again, and a
\* preview whose transform is not stored receives a new default object from
\* getTransform, so that its snap effect runs again.
AppRendered(rendered) ==
    LET again == rendered /\ Mounted /\ transforms[preview] = Unset
    IN  /\ isSnappedX' = IF again
                         THEN SnapEffect(isDragging, DefaultTransform.x, isSnappedX)
                         ELSE isSnappedX
        /\ isSnappedY' = IF again
                         THEN SnapEffect(isDragging, DefaultTransform.y, isSnappedY)
                         ELSE isSnappedY
        /\ lastEvent' = "other"
        /\ UNCHANGED <<transforms, preview, probing, naturalSize, containerSize,
                       fittedRect, isDragging, dragType, dragStart,
                       startTransform, lastPointer, sessions>>

\* handleFileSelect without setTransforms({})
HandleFileSelectKeepTransforms(kind) ==
    /\ ~UploadDisabled
    /\ file' = kind
    /\ ForgetBatch
    /\ UNCHANGED <<processingStates, isGlobalProcessing, pc, caller, result,
                   batchPc, batchIdx, hasSAB, ffmpeg, loadPromise, promises,
                   awaiting, instance, fs>>
    /\ UNCHANGED <<exportTransform, dims, batchTransforms>>
    /\ UNCHANGED planVars
    /\ transforms' = transforms
    \* each MediaPreview mounts, or stays mounted and runs its file effect
    \* again; then the snap effect sees the default transform
    /\ probing' = TRUE
    /\ isSnappedX' = SnapEffect(isDragging, GetTransform(preview).x, isSnappedX)
    /\ isSnappedY' = SnapEffect(isDragging, GetTransform(preview).y, isSnappedY)
    /\ lastEvent' = "other"
    /\ UNCHANGED <<preview, naturalSize, containerSize, fittedRect, isDragging,
                   dragType, dragStart, startTransform, lastPointer, sessions>>

\* handleFileSelect, reached through the upload zone
HandleFileSelect(kind) ==
    /\ ~UploadDisabled
    /\ file' = kind
    /\ ForgetBatch
    /\ UNCHANGED <<processingStates, isGlobalProcessing, pc, caller, result,
                   batchPc, batchIdx, hasSAB, ffmpeg, loadPromise, promises,
                   awaiting, instance, fs>>
    /\ UNCHANGED <<exportTransform, dims, batchTransforms>>
    /\ UNCHANGED planVars
    \* setTransforms({})
    /\ transforms' = [t \in Targets |-> Unset]
    \* each MediaPreview mounts, or stays mounted and runs its file effect
    \* again; then the snap effect sees the default transform
    /\ probing' = TRUE
    /\ isSnappedX' = SnapEffect(isDragging, DefaultTransform.x, isSnappedX)
    /\ isSnappedY' = SnapEffect(isDragging, DefaultTransform.y, isSnappedY)
    /\ lastEvent' = "other"
    /\ UNCHANGED <<preview, naturalSize, containerSize, fittedRect, isDragging,
                   dragType, dragStart, startTransform, lastPointer, sessions>>

\* the Remove button: setFile(null)
RemoveFile ==
    /\ file # "none"
    /\ ~RemoveDisabled
    /\ file' = "none"
    /\ ForgetBatch
    /\ UNCHANGED <<processingStates, isGlobalProcessing, pc, caller, result,
                   batchPc, batchIdx, hasSAB, ffmpeg, loadPromise, promises,
                   awaiting, instance, fs>>
    /\ UNCHANGED <<exportTransform, dims, batchTransforms>>
    /\ UNCHANGED planVars
    \* the previews unmount; the transforms stay
    /\ probing' = FALSE
    /\ naturalSize' = InitialPreview.naturalSize
    /\ containerSize' = InitialPreview.containerSize
    /\ fittedRect' = InitialPreview.fittedRect
    /\ isDragging' = InitialPreview.isDragging
    /\ dragType' = InitialPreview.dragType
    /\ dragStart' = InitialPreview.dragStart
    /\ startTransform' = InitialPreview.startTransform
    /\ isSnappedX' = InitialPreview.isSnappedX
    /\ isSnappedY' = InitialPreview.isSnappedY
    /\ lastEvent' = "other"
    /\ UNCHANGED <<transforms, preview, lastPointer, sessions>>

\* handleDownload up to its first suspension: the flags are set and
\* generateUrl calls processVideo (suspended in getVideoDimensions) or
\* processImage (suspended until the image loads).  trs is the `transforms`
\* of the render that created the handler: the current one for a click, the
\* one of the Download All click for the calls of handleDownloadAll.
BeginDownload(t, who, trs) ==
    /\ processingStates' = [processingStates EXCEPT ![t] = TRUE]
    /\ pc' = [pc EXCEPT ![t] = IF file = "video" THEN "dims" ELSE "image"]
    /\ caller' = [caller EXCEPT ![t] = who]
    /\ result' = [result EXCEPT ![t] = "none"]
    /\ awaiting' = [awaiting EXCEPT ![t] = 0]
    /\ instance' = [instance EXCEPT ![t] = 0]
    \* const transform = getTransform(config.label)
    /\ exportTransform' = [exportTransform EXCEPT ![t] = GetTransformOf(trs, t)]
    /\ dims' = [dims EXCEPT ![t] = NotProbed]

\* handleDownload without its finally block
FinishNoFinally(S, ok) ==
    LET batchT == { t \in S : caller[t] = "batch" }
        onError == HandleDownloadCatch
        effect == IF ok THEN "download"
                  ELSE IF onError.alert THEN "alert" ELSE "none"
        rethrown == ~ok /\ onError.rethrow
    IN  /\ pc' = [t \in Targets |-> IF t \in S THEN "idle" ELSE pc[t]]
        /\ processingStates' =
             [t \in Targets |-> IF t \in S /\ ok THEN FALSE ELSE processingStates[t]]
        /\ caller' = [t \in Targets |-> IF t \in S THEN "click" ELSE caller[t]]
        /\ result' = [t \in Targets |-> IF t \in S THEN "none" ELSE result[t]]
        /\ awaiting' = [t \in Targets |-> IF t \in S THEN 0 ELSE awaiting[t]]
        /\ instance' = [t \in Targets |-> IF t \in S THEN 0 ELSE instance[t]]
        /\ exportTransform' =
             [t \in Targets |-> IF t \in S THEN Unset ELSE exportTransform[t]]
        /\ dims' = [t \in Targets |-> IF t \in S THEN NotProbed ELSE dims[t]]
        /\ UNCHANGED batchTransforms
        /\ IF batchT # {} /\ batchPc = "export"
           THEN /\ batchLog' = Append(batchLog,
                      [target |-> CHOOSE t \in batchT : TRUE,
                       ok |-> ok, effect |-> effect])
                /\ IF rethrown
                   THEN \* catch and finally of handleDownloadAll
                        /\ batchAborted' = TRUE
                        /\ isGlobalProcessing' = FALSE
                        /\ batchPc' = "idle"
                        /\ batchIdx' = 0
                   ELSE \* await new Promise(resolve => setTimeout(resolve, 500))
                        /\ batchPc' = "pause"
                        /\ UNCHANGED <<batchAborted, isGlobalProcessing, batchIdx>>
           ELSE UNCHANGED <<batchLog, batchAborted, isGlobalProcessing,
                            batchPc, batchIdx>>

\* The rest of handleDownload for the targets in S, whose backend call
\* settled with `ok`: download or alert, then the finally block; and the
\* continuation of handleDownloadAll when it awaits one of them.
Finish(S, ok) ==
    LET batchT == { t \in S : caller[t] = "batch" }
        onError == HandleDownloadCatch
        effect == IF ok THEN "download"
                  ELSE IF onError.alert THEN "alert" ELSE "none"
        rethrown == ~ok /\ onError.rethrow
    IN  /\ pc' = [t \in Targets |-> IF t \in S THEN "idle" ELSE pc[t]]
        /\ processingStates' =
             [t \in Targets |-> IF t \in S THEN FALSE ELSE processingStates[t]]
        /\ caller' = [t \in Targets |-> IF t \in S THEN "click" ELSE caller[t]]
        /\ result' = [t \in Targets |-> IF t \in S THEN "none" ELSE result[t]]
        /\ awaiting' = [t \in Targets |-> IF t \in S THEN 0 ELSE awaiting[t]]
        /\ instance' = [t \in Targets |-> IF t \in S THEN 0 ELSE instance[t]]
        /\ exportTransform' =
             [t \in Targets |-> IF t \in S THEN Unset ELSE exportTransform[t]]
        /\ dims' = [t \in Targets |-> IF t \in S THEN NotProbed ELSE dims[t]]
        /\ UNCHANGED batchTransforms
        /\ IF batchT # {} /\ batchPc = "export"
           THEN /\ batchLog' = Append(batchLog,
                      [target |-> CHOOSE t \in batchT : TRUE,
                       ok |-> ok, effect |-> effect])
                /\ IF rethrown
                   THEN \* catch and finally of handleDownloadAll
                        /\ batchAborted' = TRUE
                        /\ isGlobalProcessing' = FALSE
                        /\ batchPc' = "idle"
                        /\ batchIdx' = 0
                   ELSE \* await new Promise(resolve => setTimeout(resolve, 500))
                        /\ batchPc' = "pause"
                        /\ UNCHANGED <<batchAborted, isGlobalProcessing, batchIdx>>
           ELSE UNCHANGED <<batchLog, batchAborted, isGlobalProcessing,
                            batchPc, batchIdx>>

\* A click on the Download button of target t.
ClickDownload(t) ==
    /\ file # "none"
    /\ ~DownloadDisabled(t)
    /\ BeginDownload(t, "click", transforms)
    /\ IF isGlobalProcessing
       THEN UNCHANGED <<issued, batchLog, batchAborted>>
       ELSE ForgetBatch
    /\ UNCHANGED <<file, isGlobalProcessing, batchPc, batchIdx, hasSAB, ffmpeg,
                   loadPromise, promises, fs, batchTransforms>>
    /\ UNCHANGED planVars
    /\ AppRendered(TRUE)

\* A click on Download All: handleDownloadAll up to its first await.
ClickDownloadAll ==
    /\ file # "none"
    /\ ~DownloadAllDisabled
    /\ isGlobalProcessing' = TRUE
    /\ batchPc' = "export"
    /\ batchIdx' = 1
    /\ issued' = << 1 >>
    /\ batchLog' = << >>
    /\ batchAborted' = FALSE
    /\ batchTransforms' = transforms
    /\ BeginDownload(1, "batch", transforms)
    /\ UNCHANGED <<file, hasSAB, ffmpeg, loadPromise, promises, fs>>
    /\ UNCHANGED planVars
    /\ AppRendered(TRUE)

\* The 500 ms timer of handleDownloadAll fires: the next config, or the
\* finally block after the last one.
BatchTimer ==
    /\ batchPc = "pause"
    /\ IF batchIdx < Len(RESIZE_CONFIGS)
       THEN /\ batchIdx' = batchIdx + 1
            /\ batchPc' = "export"
            /\ issued' = Append(issued, batchIdx + 1)
            /\ BeginDownload(batchIdx + 1, "batch", batchTransforms)
            /\ UNCHANGED isGlobalProcessing
       ELSE /\ batchIdx' = 0
            /\ batchPc' = "idle"
            /\ isGlobalProcessing' = FALSE
            /\ UNCHANGED <<issued, processingStates, pc, caller, result,
                           awaiting, instance, exportTransform, dims>>
    /\ UNCHANGED <<file, hasSAB, ffmpeg, loadPromise, promises, fs, batchLog,
                   batchAborted, batchTransforms>>
    /\ UNCHANGED planVars
    /\ AppRendered(TRUE)

\* processImage settles: the image loaded and was drawn, or it failed.
ImageLoaded(t) ==
    /\ pc[t] = "image"
    /\ Finish({t}, TRUE)
    /\ UNCHANGED <<file, hasSAB, ffmpeg, loadPromise, promises, fs, issued>>
    /\ UNCHANGED planVars
    /\ AppRendered(TRUE)

ImageError(t) ==
    /\ pc[t] = "image"
    /\ Finish({t}, FALSE)
    /\ UNCHANGED <<file, hasSAB, ffmpeg, loadPromise, promises, fs, issued>>
    /\ UNCHANGED planVars
    /\ AppRendered(TRUE)

\* loadFFmpeg, its synchronous part: what it returns and what it stores.
\* A promise is named by its number in `promises`; the instance an
\* initialization creates carries the number of its promise.
LoadFFmpegNoMemo ==
    IF ffmpeg # 0
    THEN [ret |-> "instance", id |-> ffmpeg,
          loadPromise |-> loadPromise, promises |-> promises]
    ELSE [ret |-> "promise", id |-> Len(promises) + 1,
          loadPromise |-> Len(promises) + 1,
          promises |-> Append(promises,
                              IF hasSAB THEN "pending" ELSE "rejected")]

LoadFFmpeg ==
    IF ffmpeg # 0
    THEN [ret |-> "instance", id |-> ffmpeg,
          loadPromise |-> loadPromise, promises |-> promises]
    ELSE IF loadPromise # 0
    THEN [ret |-> "promise", id |-> loadPromise,
          loadPromise |-> loadPromise, promises |-> promises]
    ELSE \* the async body runs up to its first await before the assignment
         [ret |-> "promise", id |-> Len(promises) + 1,
          loadPromise |-> Len(promises) + 1,
          promises |-> Append(promises,
                              IF hasSAB THEN "pending" ELSE "rejected")]

\* getVideoDimensions rejects: processVideo rejects before its try block.
DimsReject(t) ==
    /\ pc[t] = "dims"
    /\ Finish({t}, FALSE)
    /\ UNCHANGED <<file, hasSAB, ffmpeg, loadPromise, promises, fs, issued>>
    /\ UNCHANGED planVars
    /\ AppRendered(TRUE)

\* getVideoDimensions resolves and processVideo calls loadFFmpeg.
DimsResolve(t) ==
    /\ pc[t] = "dims"
    /\ \E size \in ProbedSizes :
       LET r == LoadFFmpeg
           probed == [dims EXCEPT ![t] = size]
       IN  /\ Len(r.promises) <= MaxLoads
           /\ loadPromise' = r.loadPromise
           /\ promises' = r.promises
           /\ IF r.ret = "instance" \/ r.promises[r.id] = "resolved"
              THEN /\ instance' = [instance EXCEPT ![t] = r.id]
                   /\ pc' = [pc EXCEPT ![t] = "write"]
                   /\ dims' = probed
                   /\ UNCHANGED <<awaiting, caller, result, processingStates,
                                  exportTransform, batchTransforms,
                                  batchLog, batchAborted, isGlobalProcessing,
                                  batchPc, batchIdx>>
              ELSE IF r.promises[r.id] = "pending"
              THEN /\ awaiting' = [awaiting EXCEPT ![t] = r.id]
                   /\ pc' = [pc EXCEPT ![t] = "load"]
                   /\ dims' = probed
                   /\ UNCHANGED <<instance, caller, result, processingStates,
                                  exportTransform, batchTransforms,
                                  batchLog, batchAborted, isGlobalProcessing,
                                  batchPc, batchIdx>>
              ELSE \* the promise returned is already rejected
                   Finish({t}, FALSE)
    /\ UNCHANGED <<file, hasSAB, ffmpeg, fs, issued>>
    /\ UNCHANGED planVars
    /\ AppRendered(pc'[t] = "idle")

Waiters(p) == { t \in Targets : pc[t] = "load" /\ awaiting[t] = p }

\* instance.load resolves: ffmpeg = instance, and every waiter goes on.
LoadSucceeds(p) ==
    /\ p \in 1..Len(promises)
    /\ promises[p] = "pending"
    /\ promises' = [promises EXCEPT ![p] = "resolved"]
    /\ ffmpeg' = p
    /\ instance' = [t \in Targets |-> IF t \in Waiters(p) THEN p ELSE instance[t]]
    /\ awaiting' = [t \in Targets |-> IF t \in Waiters(p) THEN 0 ELSE awaiting[t]]
    /\ pc' = [t \in Targets |-> IF t \in Waiters(p) THEN "write" ELSE pc[t]]
    /\ UNCHANGED <<file, processingStates, isGlobalProcessing, caller, result,
                   batchPc, batchIdx, hasSAB, loadPromise, fs, issued,
                   batchLog, batchAborted>>
    /\ UNCHANGED <<exportTransform, dims, batchTransforms>>
    /\ UNCHANGED planVars
    /\ AppRendered(FALSE)

\* toBlobURL or instance.load rejects: the catch block resets loadPromise
\* and every waiter receives the rejection.
LoadFails(p) ==
    /\ p \in 1..Len(promises)
    /\ promises[p] = "pending"
    /\ promises' = [promises EXCEPT ![p] = "rejected"]
    /\ loadPromise' = 0
    /\ Finish(Waiters(p), FALSE)
    /\ UNCHANGED <<file, hasSAB, ffmpeg, fs, issued>>
    /\ UNCHANGED planVars
    /\ AppRendered(Waiters(p) # {})

\* instance.writeFile(inputName, ...) succeeds.
WriteOk(t) ==
    /\ pc[t] = "write"
    /\ fs' = Written(InputName, t)
    /\ pc' = [pc EXCEPT ![t] = "predel"]
    /\ UNCHANGED <<file, processingStates, isGlobalProcessing, caller, result,
                   batchPc, batchIdx, hasSAB, ffmpeg, loadPromise, promises,
                   awaiting, instance, issued, batchLog, batchAborted>>
    /\ UNCHANGED <<exportTransform, dims, batchTransforms>>
    /\ UNCHANGED planVars
    /\ AppRendered(FALSE)

\* fetchFile or writeFile rejects, with or without an entry created.
WriteFail(t) ==
    /\ pc[t] = "write"
    /\ \E created \in BOOLEAN :
          fs' = IF created THEN Written(InputName, t) ELSE fs
    /\ result' = [result EXCEPT ![t] = "failed"]
    /\ pc' = [pc EXCEPT ![t] = "delIn"]
    /\ UNCHANGED <<file, processingStates, isGlobalProcessing, caller,
                   batchPc, batchIdx, hasSAB, ffmpeg, loadPromise, promises,
                   awaiting, instance, issued, batchLog, batchAborted>>
    /\ UNCHANGED <<exportTransform, dims, batchTransforms>>
    /\ UNCHANGED planVars
    /\ AppRendered(FALSE)

\* try { await instance.deleteFile(outputName); } catch { }
PreDelete(t) ==
    /\ pc[t] = "predel"
    /\ fs' = Deleted(OutputName)
    /\ pc' = [pc EXCEPT ![t] = "exec"]
    /\ UNCHANGED <<file, processingStates, isGlobalProcessing, caller, result,
                   batchPc, batchIdx, hasSAB, ffmpeg, loadPromise, promises,
                   awaiting, instance, issued, batchLog, batchAborted>>
    /\ UNCHANGED <<exportTransform, dims, batchTransforms>>
    /\ UNCHANGED planVars
    /\ AppRendered(FALSE)

\* instance.exec returns 0: the input was read and the output written.
ExecOk(t) ==
    /\ pc[t] = "exec"
    /\ Exists(InputName)
    /\ fs' = Written(OutputName, t)
    /\ pc' = [pc EXCEPT ![t] = "read"]
    /\ UNCHANGED <<file, processingStates, isGlobalProcessing, caller, result,
                   batchPc, batchIdx, hasSAB, ffmpeg, loadPromise, promises,
                   awaiting, instance, issued, batchLog, batchAborted>>
    /\ UNCHANGED <<exportTransform, dims, batchTransforms>>
    /\ UNCHANGED planVars
    /\ AppRendered(FALSE)

\* instance.exec returns a non-zero code or rejects, with or without a
\* partial output; without the input it cannot write an output.
ExecFail(t) ==
    /\ pc[t] = "exec"
    /\ \E partial \in BOOLEAN :
          fs' = IF partial /\ Exists(InputName)
                THEN Written(OutputName, t) ELSE fs
    /\ result' = [result EXCEPT ![t] = "failed"]
    /\ pc' = [pc EXCEPT ![t] = "delIn"]
    /\ UNCHANGED <<file, processingStates, isGlobalProcessing, caller,
                   batchPc, batchIdx, hasSAB, ffmpeg, loadPromise, promises,
                   awaiting, instance, issued, batchLog, batchAborted>>
    /\ UNCHANGED <<exportTransform, dims, batchTransforms>>
    /\ UNCHANGED planVars
    /\ AppRendered(FALSE)

\* instance.readFile(outputName) returns data of positive length.
ReadOk(t) ==
    /\ pc[t] = "read"
    /\ Exists(OutputName)
    /\ result' = [result EXCEPT ![t] = "ok"]
    /\ pc' = [pc EXCEPT ![t] = "delIn"]
    /\ UNCHANGED <<file, processingStates, isGlobalProcessing, caller,
                   batchPc, batchIdx, hasSAB, ffmpeg, loadPromise, promises,
                   awaiting, instance, fs, issued, batchLog, batchAborted>>
    /\ UNCHANGED <<exportTransform, dims, batchTransforms>>
    /\ UNCHANGED planVars
    /\ AppRendered(FALSE)

\* instance.readFile rejects, or the data is empty.
ReadFail(t) ==
    /\ pc[t] = "read"
    /\ result' = [result EXCEPT ![t] = "failed"]
    /\ pc' = [pc EXCEPT ![t] = "delIn"]
    /\ UNCHANGED <<file, processingStates, isGlobalProcessing, caller,
                   batchPc, batchIdx, hasSAB, ffmpeg, loadPromise, promises,
                   awaiting, instance, fs, issued, batchLog, batchAborted>>
    /\ UNCHANGED <<exportTransform, dims, batchTransforms>>
    /\ UNCHANGED planVars
    /\ AppRendered(FALSE)

\* finally: await instance.deleteFile(inputName), which rejects when the
\* entry is missing; the rejection skips the second deleteFile.
DeleteInput(t) ==
    /\ pc[t] = "delIn"
    /\ IF Exists(InputName)
       THEN /\ fs' = Deleted(InputName)
            /\ pc' = [pc EXCEPT ![t] = "delOut"]
            /\ UNCHANGED <<processingStates, caller, result, awaiting, instance,
                           exportTransform, dims, batchTransforms,
                           batchLog, batchAborted, isGlobalProcessing, batchPc,
                           batchIdx>>
       ELSE /\ fs' = fs
            /\ Finish({t}, result[t] = "ok")
    /\ UNCHANGED <<file, hasSAB, ffmpeg, loadPromise, promises, issued>>
    /\ UNCHANGED planVars
    /\ AppRendered(pc'[t] = "idle")

\* finally: await instance.deleteFile(outputName); its rejection is caught.
DeleteOutput(t) ==
    /\ pc[t] = "delOut"
    /\ fs' = Deleted(OutputName)
    /\ Finish({t}, result[t] = "ok")
    /\ UNCHANGED <<file, hasSAB, ffmpeg, loadPromise, promises, issued>>
    /\ UNCHANGED planVars
    /\ AppRendered(TRUE)

Next ==
    \/ \E kind \in {"image", "video"} : HandleFileSelect(kind)
    \/ RemoveFile
    \/ \E t \in Targets : ClickDownload(t)
    \/ ClickDownloadAll
    \/ BatchTimer
    \/ \E t \in Targets : ImageLoaded(t)
    \/ \E t \in Targets : ImageError(t)
    \/ \E t \in Targets : DimsReject(t)
    \/ \E t \in Targets : DimsResolve(t)
    \/ \E p \in 1..MaxLoads : LoadSucceeds(p)
    \/ \E p \in 1..MaxLoads : LoadFails(p)
    \/ \E t \in Targets : WriteOk(t)
    \/ \E t \in Targets : WriteFail(t)
    \/ \E t \in Targets : PreDelete(t)
    \/ \E t \in Targets : ExecOk(t)
    \/ \E t \in Targets : ExecFail(t)
    \/ \E t \in Targets : ReadOk(t)
    \/ \E t \in Targets : ReadFail(t)
    \/ \E t \in Targets : DeleteInput(t)
    \/ \E t \in Targets : DeleteOutput(t)

\* the planner's inputs while the App model runs
PlanQuiet ==
    /\ planIn = [ media |-> [width |-> 1920, height |-> 1080],
                  target |-> [width |-> RESIZE_CONFIGS[1].width,
                              height |-> RESIZE_CONFIGS[1].height],
                  userScale |-> RInt(1), panX |-> RInt(0), panY |-> RInt(0) ]
    /\ videoPlan = NoPlan
    /\ rasterPlan = NoPlan
    /\ moveIn = NoPlan
    /\ moveOut = NoPlan

Init == AppInit /\ hasSAB \in BOOLEAN /\ PlanQuiet /\ GestQuiet /\ preview = 1

Spec == Init /\ [][Next]_vars


(***************************************************************************)
(* Claims about the export orchestration and the engine.                   *)
(***************************************************************************)
\* processVideo calls that have written input.mp4 and are still encoding or
\* reading, hence before the end of their cleanup
VideoJobs == { t \in Targets : pc[t] \in {"predel", "exec", "read"} }

\* C1: at most one video export job (a processVideo call between writing
\* input.mp4 and finishing its cleanup) is running on the shared engine at
\* any moment, whatever Download and Download All clicks are made.
C1_OneVideoJob == Cardinality(VideoJobs) <= 1

Pending == { p \in 1..Len(promises) : promises[p] = "pending" }
Resolved == { p \in 1..Len(promises) : promises[p] = "resolved" }

\* C2: loadFFmpeg calls made while an initialization is pending start no
\* second one and all wait for the same promise; every caller receives the
\* one instance stored in ffmpeg; and once an initialization has succeeded
\* no other initialization is ever started.
C2_SingleInit ==
    /\ Cardinality(Pending) <= 1
    /\ Cardinality(Resolved) <= 1
    /\ \A t \in Targets :
          pc[t] = "load" => awaiting[t] = loadPromise /\ awaiting[t] \in Pending
    /\ \A t \in Targets : instance[t] # 0 => instance[t] = ffmpeg
    /\ ffmpeg # 0 =>
          /\ Resolved = {ffmpeg}
          /\ Pending = {}
          /\ Len(promises) = ffmpeg

\* Two callers wait for the same pending initialization.
C2_Witness ==
    \E t, u \in Targets :
        /\ t # u
        /\ pc[t] = "load"
        /\ pc[u] = "load"
        /\ awaiting[t] = awaiting[u]
        /\ awaiting[t] \in Pending

\* C3: when an initialization attempt fails, no caller is left waiting on
\* it, and the failed promise does not stay stored in loadPromise, so that
\* the next loadFFmpeg call starts a fresh attempt instead of returning the
\* failed one.
C3_FailureNotStored ==
    /\ \A t \in Targets : pc[t] = "load" => promises[awaiting[t]] = "pending"
    /\ loadPromise # 0 => promises[loadPromise] # "rejected"

\* C4: when a processVideo call that entered its try block settles, neither
\* the input.mp4 nor the output.mp4 it wrote remains in the engine's virtual
\* filesystem.
C4_CleanAfterSettle ==
    [][ \A t \in Targets :
          (pc[t] \in {"delIn", "delOut"} /\ pc'[t] = "idle") =>
              (fs'[InputName] # t /\ fs'[OutputName] # t) ]_vars

BatchEnded == batchPc = "idle" /\ issued # << >>

\* C5: in a batch, every settled export reports its own result only (a
\* download when it succeeded, an alert when it failed), and the batch runs
\* through all the targets whichever of them fail.
C5_BatchIsolatesFailures ==
    /\ \A i \in 1..Len(batchLog) :
          /\ batchLog[i].target = i
          /\ batchLog[i].effect = (IF batchLog[i].ok THEN "download" ELSE "alert")
    /\ BatchEnded =>
          /\ ~batchAborted
          /\ Len(batchLog) = Len(RESIZE_CONFIGS)

\* A video batch has ended in which the second export failed and the first
\* and the third were produced.
C5_Witness ==
    /\ BatchEnded
    /\ file = "video"
    /\ Len(batchLog) = 3
    /\ batchLog[1].ok /\ batchLog[1].effect = "download"
    /\ ~batchLog[2].ok /\ batchLog[2].effect = "alert"
    /\ batchLog[3].ok /\ batchLog[3].effect = "download"

\* C6: Download All issues one export per target in RESIZE_CONFIGS order,
\* the next one only after the previous one has settled, and while the
\* batch runs no export other than the batch's current one is in flight.
C6_BatchSequential ==
    /\ Len(issued) <= Len(RESIZE_CONFIGS)
    /\ \A i \in 1..Len(issued) : issued[i] = i
    /\ Len(batchLog) <= Len(issued)
    /\ Len(issued) <= Len(batchLog) + 1
    /\ isGlobalProcessing =>
          \A t \in Targets :
              pc[t] # "idle" =>
                  /\ caller[t] = "batch"
                  /\ issued # << >>
                  /\ t = issued[Len(issued)]
                  /\ Len(batchLog) = Len(issued) - 1
    /\ (~isGlobalProcessing /\ issued # << >>) =>
          /\ Len(issued) = Len(RESIZE_CONFIGS)
          /\ Len(batchLog) = Len(RESIZE_CONFIGS)

\* A batch over an image file has issued its three exports and ended.
C6_Witness ==
    /\ ~isGlobalProcessing
    /\ file = "image"
    /\ issued = << 1, 2, 3 >>
    /\ Len(batchLog) = 3

\* The third export of a video batch is in flight, alone.
C6_WitnessVideo ==
    /\ isGlobalProcessing
    /\ file = "video"
    /\ issued = << 1, 2, 3 >>
    /\ pc[3] = "exec"

PlanInit ==
    /\ AppInit
    /\ hasSAB = TRUE
    /\ planIn \in PlanInputs
    /\ videoPlan = NoPlan
    /\ rasterPlan = NoPlan
    /\ moveIn = NoPlan
    /\ moveOut = NoPlan
    /\ GestQuiet
    /\ preview = 1

\* processVideo computes its geometry for the call's arguments.
PlanVideo ==
    /\ videoPlan = NoPlan
    /\ videoPlan' = VideoPlan(planIn)
    /\ UNCHANGED <<planIn, rasterPlan, moveIn, moveOut>>
    /\ UNCHANGED appVars
    /\ UNCHANGED gestVars

\* processImage draws for the same arguments.
PlanRaster ==
    /\ rasterPlan = NoPlan
    /\ rasterPlan' = RasterPlan(planIn)
    /\ UNCHANGED <<planIn, videoPlan, moveIn, moveOut>>
    /\ UNCHANGED appVars
    /\ UNCHANGED gestVars

PlanNext == PlanVideo \/ PlanRaster

SpecPlan == PlanInit /\ [][PlanNext]_vars

\* A valid planner input: media and (even-adjusted) target of positive size
\* and a scale of at least 0.1.
ValidPlanInput ==
    /\ planIn.media.width > 0
    /\ planIn.media.height > 0
    /\ EvenDim(planIn.target.width) > 0
    /\ EvenDim(planIn.target.height) > 0
    /\ RLe(Rat(1, 10), planIn.userScale)

\* C7: for every media size, target frame and transform, the raster path and
\* the video path produce the same canvas size and the same placement of the
\* scaled media: the raster canvas is padW x padH and the raster draw
\* rectangle equals (padX - cropX, padY - cropY, newW, newH).
C7_RasterEqualsVideo ==
    (ValidPlanInput /\ videoPlan # NoPlan /\ rasterPlan # NoPlan) =>
        /\ rasterPlan.canvasW = videoPlan.padW
        /\ rasterPlan.canvasH = videoPlan.padH
        /\ REq(rasterPlan.x, RSub(videoPlan.padX, videoPlan.cropX))
        /\ REq(rasterPlan.y, RSub(videoPlan.padY, videoPlan.cropY))
        /\ REq(rasterPlan.width, RInt(videoPlan.newW))
        /\ REq(rasterPlan.height, RInt(videoPlan.newH))

\* C8: the scaled media placed at (padX, padY) lies entirely inside the
\* intermediate canvas: padX >= 0, padY >= 0, padX + newW <= superW and
\* padY + newH <= superH, for every valid planner input.
C8_MediaInsideCanvas ==
    (ValidPlanInput /\ videoPlan # NoPlan) =>
        /\ RLe(RInt(0), videoPlan.padX)
        /\ RLe(RInt(0), videoPlan.padY)
        /\ RLe(RAdd(videoPlan.padX, RInt(videoPlan.newW)), RInt(videoPlan.superW))
        /\ RLe(RAdd(videoPlan.padY, RInt(videoPlan.newH)), RInt(videoPlan.superH))

\* C9: the final crop window padW x padH at (cropX, cropY) lies entirely
\* inside the intermediate canvas: cropX + padW <= superW and
\* cropY + padH <= superH, for every valid planner input.
C9_CropInsideCanvas ==
    (ValidPlanInput /\ videoPlan # NoPlan) =>
        /\ RLe(RAdd(videoPlan.cropX, RInt(videoPlan.padW)), RInt(videoPlan.superW))
        /\ RLe(RAdd(videoPlan.cropY, RInt(videoPlan.padH)), RInt(videoPlan.superH))

\* C10: padW and padH are both even and at most the target dimension: equal
\* to it when it is even, one less when it is odd.
C10_PadEven ==
    videoPlan # NoPlan =>
        /\ videoPlan.padW % 2 = 0
        /\ videoPlan.padH % 2 = 0
        /\ videoPlan.padW <= planIn.target.width
        /\ videoPlan.padH <= planIn.target.height
        /\ videoPlan.padW =
             (IF planIn.target.width % 2 = 0 THEN planIn.target.width
              ELSE planIn.target.width - 1)
        /\ videoPlan.padH =
             (IF planIn.target.height % 2 = 0 THEN planIn.target.height
              ELSE planIn.target.height - 1)

\* A plan for a frame with an odd width and an even height.
C10_Witness ==
    /\ videoPlan # NoPlan
    /\ planIn.target.width % 2 = 1
    /\ planIn.target.height % 2 = 0
    /\ videoPlan.padW = planIn.target.width - 1

\* The value Math.round gives for the scaled width before it is made even
\* and floored.
RoundedW ==
    MathRound(RMul(RInt(planIn.media.width),
                   ScaleFactor(EvenDim(planIn.target.width),
                               EvenDim(planIn.target.height),
                               planIn.media.width, planIn.media.height,
                               planIn.userScale)))

\* C11: for every media size with positive dimensions, every target frame
\* and every scale of at least 0.1, the scaled dimensions newW and newH are
\* both even and both at least 2.
C11_ScaledEvenMin2 ==
    ( /\ videoPlan # NoPlan
      /\ planIn.media.width > 0 /\ planIn.media.height > 0
      /\ RLe(Rat(1, 10), planIn.userScale) ) =>
        /\ videoPlan.newW % 2 = 0
        /\ videoPlan.newH % 2 = 0
        /\ videoPlan.newW >= 2
        /\ videoPlan.newH >= 2

\* A plan whose rounded width was below 2 and was raised to 2.
C11_Witness ==
    /\ videoPlan # NoPlan
    /\ RoundedW < 2
    /\ videoPlan.newW = 2

\* The concrete scenario: media 1920x1080, target 1000x1000, scale 1, no pan.
Scenario1920 ==
    /\ planIn.media = [width |-> 1920, height |-> 1080]
    /\ planIn.target = [width |-> 1000, height |-> 1000]
    /\ planIn.userScale = Rat(1, 1)
    /\ planIn.panX = Rat(0, 1)
    /\ planIn.panY = Rat(0, 1)
    /\ videoPlan # NoPlan

\* C12 as stated: for media 1920x1080, target 1000x1000 and transform
\* {scale:1, x:0, y:0} the planner yields newW = newH = 998, the media is
\* centered with about 1 pixel of padding on each side, and cropX = cropY = 0.
C12_ScenarioAsStated ==
    Scenario1920 =>
        /\ videoPlan.newW = 998
        /\ videoPlan.newH = 998
        /\ REq(videoPlan.padX, RInt(1))
        /\ REq(videoPlan.padY, RInt(1))
        /\ REq(videoPlan.cropX, RInt(0))
        /\ REq(videoPlan.cropY, RInt(0))

\* C12 amended: for media 1920x1080, target 1000x1000 and transform
\* {scale:1, x:0, y:0} the planner yields newW = 1000 and newH = 562, the
\* media is centered with no horizontal padding and 219 pixels of padding
\* above and below, and cropX = cropY = 0.
C12_Scenario ==
    Scenario1920 =>
        /\ videoPlan.newW = 1000
        /\ videoPlan.newH = 562
        /\ REq(videoPlan.padX, RInt(0))
        /\ REq(videoPlan.padY, RInt(219))
        /\ videoPlan.superW = 1000
        /\ videoPlan.superH = 1000
        /\ REq(videoPlan.cropX, RInt(0))
        /\ REq(videoPlan.cropY, RInt(0))

\* The scenario's plan has been computed.
C12_Witness ==
    /\ Scenario1920
    /\ videoPlan.padW = 1000
    /\ videoPlan.padH = 1000

(***************************************************************************)
(* MediaPreview: measurement effects and the pointer handlers.             *)
(***************************************************************************)
MaxContainer == 1     \* the container measures k * ContainerUnit, k in 0..MaxContainer
ContainerUnit == 40   \* pixels per step of the container sizes
MaxPointerNear == 1   \* pointer coordinates 0..MaxPointerNear, and PointerFar
PointerFar == 20
MaxSessions == 1      \* pointer-downs explored

ContainerSizes ==
    [ width : { k * ContainerUnit : k \in 0..MaxContainer },
      height : { k * ContainerUnit : k \in 0..MaxContainer } ]
PointerCoords == (0..MaxPointerNear) \cup {PointerFar}
Pointers == [ x : PointerCoords, y : PointerCoords ]
\* where the pointer goes down
DownPointers == { [x |-> MaxPointerNear, y |-> MaxPointerNear] }
\* natural sizes the probe reports: square, landscape and portrait media
PreviewMediaSizes ==
    { [width |-> 1, height |-> 1], [width |-> 2, height |-> 1],
      [width |-> 1, height |-> 2] }
HandleTypes == {"nw", "ne", "se", "sw", "n", "e", "s", "w"}
DragTypes == {"move"} \cup HandleTypes

\* dragType.includes(c)
Includes(type, c) ==
    CASE c = "n" -> type \in {"n", "nw", "ne"}
      [] c = "s" -> type \in {"s", "sw", "se"}
      [] c = "e" -> type \in {"e", "ne", "se"}
      [] c = "w" -> type \in {"w", "nw", "sw"}

\* dragType.length === 2
IsCorner(type) == type \in {"nw", "ne", "se", "sw"}

THRESHOLD == Rat(3, 100)
ScaleFloor == Rat(1, 10)

\* The transform the pointer-move handler computes from.
SnapshotCurrent == GetTransform(preview)
Snapshot == startTransform

\* The pointer position the handler measures the delta from.
DragOriginPrevious == lastPointer
DragOrigin == dragStart

\* The box in container pixels that a transform describes (boxStyle).
BoxOfNoCenter(tr, cont, fit) ==
    LET w == XMul(fit.width, tr.scale)
        h == XMul(fit.height, tr.scale)
        centerX == XMul(tr.x, RInt(cont.width))
        centerY == XMul(tr.y, RInt(cont.height))
    IN  [ left |-> XSub(centerX, XDiv(w, RInt(2))),
          top |-> XSub(centerY, XDiv(h, RInt(2))),
          width |-> w, height |-> h ]
BoxOf(tr, cont, fit) ==
    LET w == XMul(fit.width, tr.scale)
        h == XMul(fit.height, tr.scale)
        centerX == XAdd(XDiv(RInt(cont.width), RInt(2)), XMul(tr.x, RInt(cont.width)))
        centerY == XAdd(XDiv(RInt(cont.height), RInt(2)), XMul(tr.y, RInt(cont.height)))
    IN  [ left |-> XSub(centerX, XDiv(w, RInt(2))),
          top |-> XSub(centerY, XDiv(h, RInt(2))),
          width |-> w, height |-> h ]

\* handleMouseMove, the move branch: pan with center snap.
MoveResultSnapBoth(st, ds, p, cont) ==
    LET shiftX == XDiv(RInt(p.x - ds.x), RInt(cont.width))
        shiftY == XDiv(RInt(p.y - ds.y), RInt(cont.height))
        newTx == XAdd(st.x, shiftX)
        newTy == XAdd(st.y, shiftY)
        snap == XLt(XAbs(newTx), THRESHOLD) \/ XLt(XAbs(newTy), THRESHOLD)
    IN  [ transform |-> [ scale |-> st.scale,
                          x |-> IF snap THEN RInt(0) ELSE newTx,
                          y |-> IF snap THEN RInt(0) ELSE newTy ],
          snappedX |-> snap, snappedY |-> snap ]
MoveResult(st, ds, p, cont) ==
    LET shiftX == XDiv(RInt(p.x - ds.x), RInt(cont.width))
        shiftY == XDiv(RInt(p.y - ds.y), RInt(cont.height))
        newTx == XAdd(st.x, shiftX)
        newTy == XAdd(st.y, shiftY)
        snapX == XLt(XAbs(newTx), THRESHOLD)
        snapY == XLt(XAbs(newTy), THRESHOLD)
    IN  [ transform |-> [ scale |-> st.scale,
                          x |-> IF snapX THEN RInt(0) ELSE newTx,
                          y |-> IF snapY THEN RInt(0) ELSE newTy ],
          snappedX |-> snapX, snappedY |-> snapY ]

\* handleMouseMove, the resize branch: the pixel box of the snapshot, its
\* edges moved by the pointer delta, converted back to a transform.
ResizeResult(type, st, ds, p, cont, fit) ==
    LET deltaX == RInt(p.x - ds.x)
        deltaY == RInt(p.y - ds.y)
        cur == BoxOf(st, cont, fit)
        currentW == cur.width
        currentH == cur.height
        currentLeft == cur.left
        currentTop == cur.top
        newW == IF Includes(type, "w") THEN XSub(currentW, deltaX)
                ELSE IF Includes(type, "e") THEN XAdd(currentW, deltaX)
                ELSE currentW
        newX == IF Includes(type, "w") THEN XAdd(currentLeft, deltaX) ELSE currentLeft
        edgeH == IF Includes(type, "n") THEN XSub(currentH, deltaY)
                 ELSE IF Includes(type, "s") THEN XAdd(currentH, deltaY)
                 ELSE currentH
        edgeY == IF Includes(type, "n") THEN XAdd(currentTop, deltaY) ELSE currentTop
        aspect == XDiv(currentW, currentH)
        newH == IF IsCorner(type) THEN XDiv(newW, aspect) ELSE edgeH
        newY == IF IsCorner(type) /\ Includes(type, "n")
                THEN XAdd(currentTop, XSub(currentH, newH))
                ELSE edgeY
        newScale == XDiv(newW, fit.width)
        newCenterX == XAdd(newX, XDiv(newW, RInt(2)))
        newCenterY == XAdd(newY, XDiv(newH, RInt(2)))
    IN  [ scale |-> XMax(ScaleFloor, newScale),
          x |-> XDiv(XSub(newCenterX, XDiv(RInt(cont.width), RInt(2))), RInt(cont.width)),
          y |-> XDiv(XSub(newCenterY, XDiv(RInt(cont.height), RInt(2))), RInt(cont.height)) ]

\* img.onload / video.onloadedmetadata of the file effect, then the
\* fitted-rect effect.
ProbeLoaded(size) ==
    /\ Mounted
    /\ probing
    /\ probing' = FALSE
    /\ naturalSize' = size
    /\ fittedRect' = FitContain(size, containerSize, fittedRect)
    /\ lastEvent' = "other"
    /\ UNCHANGED <<transforms, preview, containerSize, isDragging, dragType,
                   dragStart, startTransform, isSnappedX, isSnappedY,
                   lastPointer, sessions>>
    /\ UNCHANGED <<planVars, appVars>>

\* The ResizeObserver callback, then the fitted-rect effect.  The container
\* is laid out once per mount: the observer reports its size one time.
ContainerResized(size) ==
    /\ Mounted
    /\ containerSize = ZeroSize
    /\ size # containerSize
    /\ containerSize' = size
    /\ fittedRect' = FitContain(naturalSize, size, fittedRect)
    /\ lastEvent' = "other"
    /\ UNCHANGED <<transforms, preview, probing, naturalSize, isDragging, dragType,
                   dragStart, startTransform, isSnappedX, isSnappedY,
                   lastPointer, sessions>>
    /\ UNCHANGED <<planVars, appVars>>

\* handleMouseDown on the media ("move") or on a handle.  The media element
\* can be pressed only where the box has an area; the handles are 12-pixel
\* dots around the box and can be pressed even when the box is empty.
MouseDown(type, p) ==
    /\ Mounted
    /\ sessions < MaxSessions
    /\ type = "move" => (XLt(RInt(0), fittedRect.width) /\ XLt(RInt(0), fittedRect.height))
    /\ isDragging' = TRUE
    /\ dragType' = type
    /\ dragStart' = p
    /\ startTransform' = GetTransform(preview)
    /\ sessions' = sessions + 1
    /\ lastEvent' = "other"
    /\ lastPointer' = p
    /\ UNCHANGED <<transforms, preview, probing, naturalSize, containerSize,
                   fittedRect, isSnappedX, isSnappedY>>
    /\ UNCHANGED <<planVars, appVars>>

\* handleMouseMove: nothing while idle; otherwise the transform computed
\* from the snapshot is committed through onTransformChange.
MouseMove(p) ==
    /\ Mounted
    /\ lastEvent' = "move"
    /\ IF ~isDragging
       THEN UNCHANGED <<transforms, isSnappedX, isSnappedY, lastPointer>>
       ELSE IF dragType = "move"
       THEN LET r == MoveResult(Snapshot, DragOrigin, p, containerSize)
            IN  /\ lastPointer' = p
                /\ transforms' = [transforms EXCEPT ![preview] = r.transform]
                /\ isSnappedX' = r.snappedX
                /\ isSnappedY' = r.snappedY
       ELSE /\ lastPointer' = p
            /\ transforms' = [transforms EXCEPT ![preview] =
                   ResizeResult(dragType, Snapshot, DragOrigin, p, containerSize, fittedRect)]
            /\ UNCHANGED <<isSnappedX, isSnappedY>>
    /\ UNCHANGED <<preview, probing, naturalSize, containerSize, fittedRect, isDragging,
                   dragType, dragStart, startTransform, sessions>>
    /\ UNCHANGED <<planVars, appVars>>

\* handleMouseUp, then the snap effect, which runs only if isDragging changed.
HandleMouseUp(ev) ==
    /\ Mounted
    /\ isDragging' = FALSE
    /\ dragType' = "none"
    /\ isSnappedX' = (isDragging /\ XEq(GetTransform(preview).x, RInt(0)))
    /\ isSnappedY' = (isDragging /\ XEq(GetTransform(preview).y, RInt(0)))
    /\ lastEvent' = ev
    /\ UNCHANGED <<transforms, preview, probing, naturalSize, containerSize,
                   fittedRect, dragStart, startTransform, lastPointer, sessions>>
    /\ UNCHANGED <<planVars, appVars>>

\* onMouseUp={handleMouseUp}
MouseUp ==
    /\ isDragging \in BOOLEAN
    /\ HandleMouseUp("up")

\* onMouseLeave={handleMouseUp}
MouseLeaveIgnored ==
    /\ Mounted
    /\ lastEvent' = "leave"
    /\ UNCHANGED <<transforms, preview, probing, naturalSize, containerSize,
                   fittedRect, isDragging, dragType, dragStart, startTransform,
                   isSnappedX, isSnappedY, lastPointer, sessions>>
    /\ UNCHANGED <<planVars, appVars>>
MouseLeave ==
    /\ isDragging \in BOOLEAN
    /\ HandleMouseUp("leave")

\* The Reset button of a target: updateTransform(label, {scale: 1, x: 0, y: 0});
\* the snap effect of this preview runs when its transform prop is a new
\* object: the one just stored, or the default of a transform not stored.
ResetTransform(t) ==
    /\ Mounted
    /\ transforms' = [transforms EXCEPT ![t] = DefaultTransform]
    /\ isSnappedX' = IF t = preview \/ transforms[preview] = Unset
                     THEN SnapEffect(isDragging, DefaultTransform.x, isSnappedX)
                     ELSE isSnappedX
    /\ isSnappedY' = IF t = preview \/ transforms[preview] = Unset
                     THEN SnapEffect(isDragging, DefaultTransform.y, isSnappedY)
                     ELSE isSnappedY
    /\ lastEvent' = "other"
    /\ UNCHANGED <<preview, probing, naturalSize, containerSize, fittedRect, isDragging,
                   dragType, dragStart, startTransform, lastPointer, sessions>>
    /\ UNCHANGED <<planVars, appVars>>

GestureInit ==
    /\ AppInit
    /\ hasSAB = TRUE
    /\ PlanQuiet
    /\ GestQuiet
    /\ preview = 1

GestureNext ==
    \/ HandleFileSelect("image")
    \/ RemoveFile
    \/ \E size \in PreviewMediaSizes : ProbeLoaded(size)
    \/ \E size \in ContainerSizes : ContainerResized(size)
    \/ \E type \in DragTypes, p \in DownPointers : MouseDown(type, p)
    \/ \E p \in Pointers : MouseMove(p)
    \/ MouseUp
    \/ MouseLeave
    \/ ResetTransform(preview)

SpecGesture == GestureInit /\ [][GestureNext]_vars

(***************************************************************************)
(* One evaluation of handleMouseMove for every snapshot, measurement,      *)
(* drag type and pointer position of a bounded grid.                       *)
(***************************************************************************)
\* container sizes with an area, square and not
MeasuredContainers ==
    { c \in ContainerSizes : c.width > 0 /\ c.height > 0 }
        \cup { [width |-> 2 * ContainerUnit, height |-> ContainerUnit] }

MoveInputs ==
    [ naturalSize : PreviewMediaSizes,
      containerSize : MeasuredContainers,
      startTransform : [scale : Scales, x : Pans, y : Pans],
      dragType : DragTypes,
      dragStart : DownPointers,
      pointer : Pointers ]

\* fittedRect as the fitted-rect effect leaves it for the input's sizes
FittedOf(in) == FitContain(in.naturalSize, in.containerSize, ZeroRect)

PointerInit ==
    /\ AppInit
    /\ hasSAB = TRUE
    /\ planIn = [ media |-> [width |-> 1920, height |-> 1080],
                  target |-> [width |-> RESIZE_CONFIGS[1].width,
                              height |-> RESIZE_CONFIGS[1].height],
                  userScale |-> RInt(1), panX |-> RInt(0), panY |-> RInt(0) ]
    /\ videoPlan = NoPlan
    /\ rasterPlan = NoPlan
    /\ moveIn \in MoveInputs
    /\ moveOut = NoPlan
    /\ GestQuiet
    /\ preview = 1

\* handleMouseMove in a move session
PointerMovePan ==
    /\ moveOut = NoPlan
    /\ moveIn.dragType = "move"
    /\ moveOut' = MoveResult(moveIn.startTransform, moveIn.dragStart,
                             moveIn.pointer, moveIn.containerSize).transform
    /\ UNCHANGED <<planIn, videoPlan, rasterPlan, moveIn>>
    /\ UNCHANGED <<appVars, gestVars>>

\* handleMouseMove in a resize session
PointerMoveResize ==
    /\ moveOut = NoPlan
    /\ moveIn.dragType # "move"
    /\ moveOut' = ResizeResult(moveIn.dragType, moveIn.startTransform, moveIn.dragStart,
                               moveIn.pointer, moveIn.containerSize, FittedOf(moveIn))
    /\ UNCHANGED <<planIn, videoPlan, rasterPlan, moveIn>>
    /\ UNCHANGED <<appVars, gestVars>>

PointerNext == PointerMovePan \/ PointerMoveResize

SpecPointer == PointerInit /\ [][PointerNext]_vars

(***************************************************************************)
(* Claims about the pointer-move geometry and the gesture state machine.   *)
(***************************************************************************)
\* C13: round trip.  For every transform with scale >= 0.1 and every
\* measured container and fitted rectangle, a resize-handle drag with zero
\* pointer delta, for each of the eight handles, commits the transform it
\* started from (scale, x and y).
C13_RoundTrip ==
    ( /\ moveOut # NoPlan
      /\ moveIn.dragType \in HandleTypes
      /\ moveIn.pointer = moveIn.dragStart
      /\ XGe(moveIn.startTransform.scale, ScaleFloor) ) =>
        moveOut = moveIn.startTransform

\* A zero-delta drag of a corner handle from a scaled, panned transform in
\* a container that is not square.
C13_Witness ==
    /\ moveOut # NoPlan
    /\ moveIn.dragType = "nw"
    /\ moveIn.pointer = moveIn.dragStart
    /\ moveIn.startTransform = [scale |-> Rat(3, 10), x |-> Rat(1, 4), y |-> Rat(-1, 2)]
    /\ moveIn.containerSize.width # moveIn.containerSize.height
    /\ moveOut = moveIn.startTransform

\* The box at drag start and the box the committed transform describes.
StartBox == BoxOf(moveIn.startTransform, moveIn.containerSize, FittedOf(moveIn))
CommittedBox == BoxOf(moveOut, moveIn.containerSize, FittedOf(moveIn))

\* C15: after a corner-handle drag the box described by the committed
\* transform has the width/height ratio of the box at drag start; after an
\* edge-handle drag it differs on one axis only: e/w change only its width
\* and horizontal position, n/s only its height and vertical position.
C15_ResizeAxes ==
    (moveOut # NoPlan /\ moveIn.dragType \in HandleTypes) =>
        /\ IsCorner(moveIn.dragType) =>
              XMul(CommittedBox.width, StartBox.height)
                  = XMul(CommittedBox.height, StartBox.width)
        /\ moveIn.dragType \in {"e", "w"} =>
              /\ CommittedBox.height = StartBox.height
              /\ CommittedBox.top = StartBox.top
        /\ moveIn.dragType \in {"n", "s"} =>
              /\ CommittedBox.width = StartBox.width
              /\ CommittedBox.left = StartBox.left

\* What one pointer-move at p commits from the session's snapshot and
\* start pointer.
OneMoveResult(p) ==
    IF dragType = "move"
    THEN MoveResult(startTransform, dragStart, p, containerSize).transform
    ELSE ResizeResult(dragType, startTransform, dragStart, p,
                      containerSize, fittedRect)

\* C14: center snap is idempotent.  Within one move session, a pointer-move
\* delivered at the position of the pointer-move before it leaves the
\* transform (and the snap flags) as the first one left them.
C14_SnapIdempotent ==
    [][ ( /\ isDragging /\ dragType = "move"
          /\ lastEvent = "move" /\ lastEvent' = "move"
          /\ lastPointer' = lastPointer ) =>
        ( /\ transforms' = transforms
          /\ isSnappedX' = isSnappedX
          /\ isSnappedY' = isSnappedY ) ]_vars

\* A move session whose last pointer-move snapped x to the center from a
\* non-zero offset and left y unsnapped.
C14_Witness ==
    /\ isDragging /\ dragType = "move" /\ lastEvent = "move"
    /\ lastPointer.x # dragStart.x
    /\ transforms[preview] # Unset
    /\ transforms[preview].x = RInt(0)
    /\ isSnappedX /\ ~isSnappedY

\* C16: within one drag session the transform committed by a pointer-move
\* that follows other pointer-moves is the one a single pointer-move at that
\* position commits from the session's start pointer and start-transform
\* snapshot: it does not depend on the earlier moves.
C16_MovesFromSnapshot ==
    [][ (isDragging /\ lastEvent = "move" /\ lastEvent' = "move") =>
        transforms'[preview] = OneMoveResult(lastPointer') ]_vars

\* A session in which a pointer-move has already changed the transform, so
\* that a further pointer-move starts from a transform other than the snapshot.
C16_Witness ==
    /\ isDragging /\ lastEvent = "move"
    /\ transforms[preview] # Unset
    /\ transforms[preview] # startTransform
    /\ lastPointer # dragStart

\* C17: a pointer-up and a pointer-leave both end the drag session (Idle)
\* and leave the transform as the last move committed it; while Idle a
\* pointer-move changes nothing.
C17_UpAndLeaveEndSession ==
    [][ /\ (lastEvent' \in {"up", "leave"}) =>
              (~isDragging' /\ dragType' = "none" /\ transforms' = transforms)
        /\ (~isDragging /\ lastEvent' = "move") =>
              (transforms' = transforms /\ ~isDragging') ]_vars

\* A session ended by a pointer-leave after it committed a transform.
C17_Witness ==
    /\ lastEvent = "leave"
    /\ ~isDragging
    /\ transforms[preview] # Unset
    /\ transforms[preview] # DefaultTransform

\* C18: in every reachable state the transform of every target has
\* scale >= 0.1.
C18_ScaleAtLeastFloor ==
    \A t \in Targets : XGe(GetTransform(t).scale, ScaleFloor)

\* All four measurements are known and positive.
AllMeasured ==
    /\ naturalSize.width > 0 /\ naturalSize.height > 0
    /\ containerSize.width > 0 /\ containerSize.height > 0

\* C19: the fitted rectangle is computed only when the container width and
\* height and the media width and height are all greater than 0; while any
\* of them is 0 it is left in its not-yet-measured state.
C19_FittedOnlyWhenMeasured ==
    ~AllMeasured => fittedRect = ZeroRect

\* The container is not measured or the fitted rectangle is still 0.
NotReady ==
    \/ containerSize.width = 0 \/ containerSize.height = 0
    \/ fittedRect.width = RInt(0) \/ fittedRect.height = RInt(0)

\* C20: while the container is not measured or the media is not probed, a
\* pointer-move commits no transform: the transforms stay as they were.
C20_NoCommitBeforeReady ==
    [][ (NotReady /\ lastEvent' = "move") => transforms' = transforms ]_vars


\* The transforms of all targets and the exports together: the MediaPreview
\* of target `preview` in detail, the previews of the other targets by the
\* transforms they commit.
FrameTransforms == { [scale |-> Rat(1, 2), x |-> Rat(1, 4), y |-> RInt(0)] }
FrameMedia == [width |-> 1, height |-> 1]
FrameContainer == [width |-> ContainerUnit, height |-> ContainerUnit]
FramePointers == { [x |-> PointerFar, y |-> MaxPointerNear] }

\* onTransformChange={(t) => updateTransform(config.label, t)} called by the
\* MediaPreview of another target t while it is dragged; App renders again.
OnTransformChange(t, tr) ==
    /\ Mounted
    /\ t # preview
    /\ transforms' = [transforms EXCEPT ![t] = tr]
    /\ isSnappedX' = IF transforms[preview] = Unset
                     THEN SnapEffect(isDragging, DefaultTransform.x, isSnappedX)
                     ELSE isSnappedX
    /\ isSnappedY' = IF transforms[preview] = Unset
                     THEN SnapEffect(isDragging, DefaultTransform.y, isSnappedY)
                     ELSE isSnappedY
    /\ lastEvent' = "other"
    /\ UNCHANGED <<preview, probing, naturalSize, containerSize, fittedRect, isDragging,
                   dragType, dragStart, startTransform, lastPointer, sessions>>
    /\ UNCHANGED <<planVars, appVars>>

FramesInit ==
    /\ AppInit
    /\ hasSAB = TRUE
    /\ PlanQuiet
    /\ GestQuiet
    /\ preview = 1

FramesNext ==
    \/ HandleFileSelect("image")
    \/ ProbeLoaded(FrameMedia)
    \/ ContainerResized(FrameContainer)
    \/ \E p \in DownPointers : MouseDown("move", p)
    \/ \E p \in FramePointers : MouseMove(p)
    \/ \E t \in Targets, tr \in FrameTransforms : OnTransformChange(t, tr)
    \/ \E t \in Targets : ResetTransform(t)
    \/ \E t \in Targets : ClickDownload(t)
    \/ ClickDownloadAll
    \/ BatchTimer
    \/ \E t \in Targets : ImageLoaded(t)

SpecFrames == FramesInit /\ [][FramesNext]_vars


(***************************************************************************)
(* Claims about preconditions, the transforms and the busy flags.          *)
(***************************************************************************)
\* processVideo calls whose geometry (scaleFactor, newW/newH, pad, crop) has
\* been computed: the statements after writeFile resolved
GeometryComputed == { t \in Targets : pc[t] \in {"predel", "exec", "read"} }

\* processVideo calls whose instance.exec has been invoked
EncodeInvoked == { t \in Targets : pc[t] = "read" }

ZeroProbe(t) == dims[t] # NotProbed /\ (dims[t].width = 0 \/ dims[t].height = 0)

\* C21: a video export whose probed media width or height is 0 is rejected
\* before its plan geometry is computed and before the encode backend is
\* invoked.
C21_ZeroDimsRejected ==
    \A t \in Targets : ZeroProbe(t) => t \notin GeometryComputed \cup EncodeInvoked

\* the transform a target shows and exports, given the stored transforms
Shown(trs, t) == IF trs[t] = Unset THEN DefaultTransform ELSE trs[t]

\* C22: right after a new file is selected every target's transform is
\* {scale: 1, x: 0, y: 0}, whatever it was for the previous file; and the
\* reset action of a target sets that target's transform to it.
C22_FreshTransforms ==
    [][ /\ HandleFileSelect("image")
           => \A t \in Targets : Shown(transforms', t) = DefaultTransform
        /\ \A t \in Targets :
              ResetTransform(t) => Shown(transforms', t) = DefaultTransform ]_vars

\* a new file was selected (its probe is pending, the previous one's size is
\* still there) after a drag that had moved the media of the previous file
C22_Witness ==
    /\ probing
    /\ naturalSize # ZeroSize
    /\ lastPointer \in FramePointers
    /\ \A t \in Targets : transforms[t] = Unset

\* C23: a change of the source file ends the drag session in flight: after
\* handleFileSelect the gesture controller is Idle, so that a pointer-move
\* without a new pointer-down commits nothing to the new file's transform.
C23_FileChangeEndsDrag ==
    [][ HandleFileSelect("image") => ~isDragging' ]_vars

\* C24: whenever the gesture controller is Idle and its effects have run,
\* the snapped-X flag equals (transform.x = 0) and the snapped-Y flag equals
\* (transform.y = 0).
C24_SnapFlagsAtRest ==
    (Mounted /\ ~isDragging) =>
        /\ isSnappedX = XEq(GetTransform(preview).x, RInt(0))
        /\ isSnappedY = XEq(GetTransform(preview).y, RInt(0))

\* the media has a positive aspect ratio and the container a positive area
PositiveSizes ==
    /\ Mounted
    /\ naturalSize.width > 0 /\ naturalSize.height > 0
    /\ containerSize.width > 0 /\ containerSize.height > 0

\* C25: for a media aspect ratio > 0 and a container of positive width and
\* height the fitted rectangle lies inside the container, is centered
\* (2*left + width = containerW, 2*top + height = containerH) and touches
\* the container on at least one axis.
C25_FittedInsideCentered ==
    PositiveSizes =>
        LET cw == RInt(containerSize.width)
            ch == RInt(containerSize.height)
            two == RInt(2)
        IN  /\ XGe(fittedRect.left, RInt(0))
            /\ XGe(fittedRect.top, RInt(0))
            /\ XGe(cw, fittedRect.width)
            /\ XGe(ch, fittedRect.height)
            /\ XEq(XAdd(XMul(two, fittedRect.left), fittedRect.width), cw)
            /\ XEq(XAdd(XMul(two, fittedRect.top), fittedRect.height), ch)
            /\ (XEq(fittedRect.width, cw) \/ XEq(fittedRect.height, ch))

\* a media wider than its container: fitted with bars above and below
C25_Witness ==
    /\ PositiveSizes
    /\ naturalSize.width > naturalSize.height
    /\ containerSize.width = containerSize.height
    /\ XLt(RInt(0), fittedRect.top)
    /\ XEq(fittedRect.left, RInt(0))

\* start + delta / size as a fraction of integers, for a start value n/d
MovedBy(start, delta, size) ==
    [num |-> start.n * size + delta * start.d, den |-> start.d * size]

\* the value the claim gives one axis: 0 when |start + delta/size| < 3/100
AxisValue(start, delta, size) ==
    LET m == MovedBy(start, delta, size)
    IN  IF 100 * Abs(m.num) < 3 * m.den THEN RInt(0) ELSE Rat(m.num, m.den)

\* C26: a pointer-move of a move session commits the scale of the start
\* transform and, on each axis on its own, start + delta / container size,
\* replaced by 0 when its absolute value is below 0.03; what one axis does
\* never depends on the other axis.
C26_MoveCommit ==
    (moveOut # NoPlan /\ moveIn.dragType = "move") =>
        LET st == moveIn.startTransform
            dx == moveIn.pointer.x - moveIn.dragStart.x
            dy == moveIn.pointer.y - moveIn.dragStart.y
        IN  /\ moveOut.scale = st.scale
            /\ moveOut.x = AxisValue(st.x, dx, moveIn.containerSize.width)
            /\ moveOut.y = AxisValue(st.y, dy, moveIn.containerSize.height)

\* a move that snapped x to the center from an offset start and left y off
\* the center
C26_Witness ==
    /\ moveOut # NoPlan /\ moveIn.dragType = "move"
    /\ moveIn.startTransform.x # RInt(0)
    /\ moveIn.pointer.x # moveIn.dragStart.x
    /\ moveOut.x = RInt(0)
    /\ moveOut.y # RInt(0)
    /\ moveOut.y # moveIn.startTransform.y

\* C27: during a drag of a corner handle that includes n (nw or ne) the
\* bottom edge of the box described by the committed transform stays where
\* it was at drag start, for every pointer position, also for those that
\* drive the scale down to the floor.
C27_BottomEdgeFixed ==
    (moveOut # NoPlan /\ moveIn.dragType \in {"nw", "ne"}) =>
        XAdd(CommittedBox.top, CommittedBox.height)
            = XAdd(StartBox.top, StartBox.height)

\* C28: each target's export is planned from that target's own transform.
\* A gesture or a reset on one target leaves the transforms of all other
\* targets unchanged, and the export of target t passes the (scale, x, y)
\* that t has when the export starts.
C28_OwnTransform ==
    [][ /\ lastEvent' = "move" =>
              \A u \in Targets \ {preview} : transforms'[u] = transforms[u]
        /\ \A t \in Targets :
              (ResetTransform(t) \/ \E tr \in FrameTransforms : OnTransformChange(t, tr))
                  => \A u \in Targets \ {t} : transforms'[u] = transforms[u]
        /\ \A t \in Targets :
              (pc[t] = "idle" /\ pc'[t] # "idle")
                  => exportTransform'[t] = Shown(transforms, t) ]_vars

\* C29: in every state, dragging or not, the snapped-X indicator is shown
\* only while the current transform has x = 0 and the snapped-Y indicator
\* only while it has y = 0.
C29_IndicatorMeansCentered ==
    Mounted =>
        /\ isSnappedX => XEq(GetTransform(preview).x, RInt(0))
        /\ isSnappedY => XEq(GetTransform(preview).y, RInt(0))

\* The steps that settle the export of target t: the media element, the
\* engine and the filesystem answer every call made for it.
BackendSettles(t) ==
    \/ ImageLoaded(t) \/ ImageError(t)
    \/ DimsReject(t) \/ DimsResolve(t)
    \/ WriteOk(t) \/ WriteFail(t)
    \/ PreDelete(t)
    \/ ExecOk(t) \/ ExecFail(t)
    \/ ReadOk(t) \/ ReadFail(t)
    \/ DeleteInput(t) \/ DeleteOutput(t)

\* The initialization behind promise p of loadFFmpeg settles.
LoadSettles(p) == LoadSucceeds(p) \/ LoadFails(p)

\* Download is clicked on the first MaxClickTarget targets only; Download
\* All exports every target.
MaxClickTarget == 2

SettlingNext ==
    \/ \E kind \in {"image", "video"} : HandleFileSelect(kind)
    \/ RemoveFile
    \/ \E t \in 1..MaxClickTarget : ClickDownload(t)
    \/ ClickDownloadAll
    \/ BatchTimer
    \/ \E t \in Targets : ImageLoaded(t)
    \/ \E t \in Targets : ImageError(t)
    \/ \E t \in Targets : DimsReject(t)
    \/ \E t \in Targets : DimsResolve(t)
    \/ \E p \in 1..MaxLoads : LoadSucceeds(p)
    \/ \E p \in 1..MaxLoads : LoadFails(p)
    \/ \E t \in Targets : WriteOk(t)
    \/ \E t \in Targets : WriteFail(t)
    \/ \E t \in Targets : PreDelete(t)
    \/ \E t \in Targets : ExecOk(t)
    \/ \E t \in Targets : ExecFail(t)
    \/ \E t \in Targets : ReadOk(t)
    \/ \E t \in Targets : ReadFail(t)
    \/ \E t \in Targets : DeleteInput(t)
    \/ \E t \in Targets : DeleteOutput(t)

\* The App with a backend whose calls all settle and a timer that fires.
SpecSettling ==
    /\ Init /\ [][SettlingNext]_vars
    /\ \A t \in Targets : WF_vars(BackendSettles(t))
    /\ \A p \in 1..MaxLoads : WF_vars(LoadSettles(p))
    /\ WF_vars(BatchTimer)

\* C30: every export releases its busy flags once the backend call has
\* settled.  A target's processing flag is true exactly from the start of
\* its handleDownload until that call has settled, on success and on
\* failure, and is released eventually; the batch flag is true exactly
\* while handleDownloadAll runs and is released eventually; with nothing in
\* flight no Download control of a selected file is disabled.
C30_BusyFlagsReleased ==
    /\ [](\A t \in Targets : processingStates[t] <=> pc[t] # "idle")
    /\ [](isGlobalProcessing <=> batchPc # "idle")
    /\ []((batchPc = "idle" /\ \A t \in Targets : pc[t] = "idle") =>
              (~DownloadAllDisabled /\ \A t \in Targets : ~DownloadDisabled(t)))
    /\ \A t \in Targets : processingStates[t] ~> ~processingStates[t]
    /\ isGlobalProcessing ~> ~isGlobalProcessing

\* a batch has ended in which an export failed: all flags are released
C30_Witness ==
    /\ BatchEnded
    /\ \E i \in 1..Len(batchLog) : ~batchLog[i].ok
    /\ ~isGlobalProcessing
    /\ \A t \in Targets : ~processingStates[t]
====
